---------------------------- MODULE Spec2Model ----------------------------
(***************************************************************************)
(* A model of the Carrier Sales API (src/app.py): the reference-number     *)
(* normalizer, the CSV-backed load table and its lookup endpoint, the      *)
(* FMCSA carrier verification endpoint and the offer evaluator.            *)
(*                                                                         *)
(* Reference numbers and MC numbers are Python strings on which the code   *)
(* works character by character (strip, upper, startswith, slicing,        *)
(* lstrip); they are modelled as sequences of one-character strings.       *)
(* Response messages are only ever built by concatenation and are          *)
(* modelled as TLA+ strings.                                               *)
(***************************************************************************)
EXTENDS Integers, Sequences, FiniteSets, TLC

VARIABLES
    csvfile,        \* loads.csv: whether it exists, and the rows DictReader yields
    load_data_csv,  \* the global dict: normalized reference -> row
    request,        \* the request (or argument) of the call being handled
    fmcsa,          \* what the FMCSA registry answers to the outbound GET
    response,       \* what the call returned or raised
    pc              \* "startup" (module import), "serving"/"call", "done"

vars == <<csvfile, load_data_csv, request, fmcsa, response, pc>>

(***************************************************************************)
(* Bounds of the model.                                                    *)
(***************************************************************************)
MaxLen == 4        \* longest enumerated reference string
MaxRows == 2       \* most rows in loads.csv
MaxOffer == 12     \* offers range over -MaxOffer..MaxOffer (plus samples)
MaxCarriers == 2   \* longest "carrier" list in a registry answer

NoResponse == [kind |-> "none"]
NoAnswer == [kind |-> "unused"]

(***************************************************************************)
(* Python string primitives used by the code.                              *)
(***************************************************************************)
Whitespace == {" ", "\t"}

\* str.upper() on one character (the letters the model's alphabets hold).
UpperChar(c) ==
    CASE c = "r" -> "R"
      [] c = "e" -> "E"
      [] c = "f" -> "F"
      [] c = "m" -> "M"
      [] c = "c" -> "C"
      [] OTHER -> c

\* str.upper()
upper(s) == [i \in 1..Len(s) |-> UpperChar(s[i])]

\* str.lstrip(chars): drop the longest prefix made of characters of chars.
RECURSIVE lstrip(_, _)
lstrip(s, chars) ==
    IF s # <<>> /\ Head(s) \in chars THEN lstrip(Tail(s), chars) ELSE s

\* str.rstrip(chars)
RECURSIVE rstrip(_, _)
rstrip(s, chars) ==
    IF s # <<>> /\ s[Len(s)] \in chars
    THEN rstrip(SubSeq(s, 1, Len(s) - 1), chars)
    ELSE s

\* str.strip() with no argument: whitespace off both ends.
strip(s) == rstrip(lstrip(s, Whitespace), Whitespace)

\* str.startswith(prefix)
startswith(s, prefix) ==
    /\ Len(s) >= Len(prefix)
    /\ SubSeq(s, 1, Len(prefix)) = prefix

\* s[n:]
SliceFrom(s, n) == SubSeq(s, n + 1, Len(s))

REF == <<"R", "E", "F">>
ZERO == {"0"}

(***************************************************************************)
(* normalize_reference, and the variants of it a slip in the code would    *)
(* produce.                                                                *)
(***************************************************************************)
\* variant: leading zeros stripped before the prefix is looked for
normalize_reference_zeros_first(ref) ==
    LET r1 == lstrip(upper(strip(ref)), ZERO)
    IN  IF startswith(r1, REF) THEN SliceFrom(r1, 3) ELSE r1

\* variant: a single leading zero dropped instead of all of them
normalize_reference_one_zero(ref) ==
    LET r1 == upper(strip(ref))
        r2 == IF startswith(r1, REF) THEN SliceFrom(r1, 3) ELSE r1
    IN  IF startswith(r2, <<"0">>) THEN SliceFrom(r2, 1) ELSE r2

\* variant: the prefix test made before upper-casing
normalize_reference_no_upper(ref) ==
    LET r1 == strip(ref)
        r2 == IF startswith(r1, REF) THEN SliceFrom(r1, 3) ELSE r1
    IN  lstrip(upper(r2), ZERO)

normalize_reference(ref) ==
    LET r1 == upper(strip(ref))
        r2 == IF startswith(r1, REF) THEN SliceFrom(r1, 3) ELSE r1
    IN  lstrip(r2, ZERO)

(***************************************************************************)
(* Inputs of the normalizer: every string over RefAlphabet of at most      *)
(* MaxLen characters, and the strings the documentation names.             *)
(***************************************************************************)
RefAlphabet == {" ", "0", "9", "R", "E", "F", "f"}

RECURSIVE StringsUpTo(_, _)
StringsUpTo(alphabet, n) ==
    IF n = 0 THEN {<<>>}
    ELSE LET shorter == StringsUpTo(alphabet, n - 1)
         IN  shorter \cup {Append(s, c) : s \in shorter, c \in alphabet}

REF09460 == <<"R", "E", "F", "0", "9", "4", "6", "0">>
S09460 == <<"0", "9", "4", "6", "0">>
S9460 == <<"9", "4", "6", "0">>
REF000 == <<"R", "E", "F", "0", "0", "0">>
REFREF1 == <<"R", "E", "F", "R", "E", "F", "1">>
PaddedLower == <<" ", "r", "e", "f", "0", "9", "4", "6", "0", "\t">>

NamedRefs == {REF09460, S09460, S9460, REF000, REFREF1, PaddedLower}

RefInputs == StringsUpTo(RefAlphabet, MaxLen) \cup NamedRefs

NoFile == [exists |-> FALSE, has_ref_column |-> FALSE, rows |-> <<>>]

Idle ==
    /\ csvfile = NoFile
    /\ load_data_csv = <<>>
    /\ fmcsa = NoAnswer

InitNormalize ==
    /\ Idle
    /\ request \in RefInputs
    /\ response = <<>>
    /\ pc = "call"

Normalize ==
    /\ pc = "call"
    /\ response' = normalize_reference(request)
    /\ pc' = "done"
    /\ UNCHANGED <<csvfile, load_data_csv, request, fmcsa>>

NextNormalize == Normalize

SpecNormalize == InitNormalize /\ [][NextNormalize]_vars

(***************************************************************************)
(* Properties of the normalizer.                                           *)
(***************************************************************************)
LowerLetters == {"r", "e", "f", "m", "c"}

IsUpper(s) == \A i \in 1..Len(s) : s[i] \notin LowerLetters

StartsWithSpace(s) == s # <<>> /\ Head(s) \in Whitespace

StartsWithZero(s) == s # <<>> /\ Head(s) = "0"

\* Index of the first character of s that is not whitespace (Len(s) + 1 if none).
FirstInk(s) ==
    CHOOSE i \in 1..(Len(s) + 1) :
        /\ \A k \in 1..(i - 1) : s[k] \in Whitespace
        /\ i <= Len(s) => s[i] \notin Whitespace

\* Index of the last character of s that is not whitespace (0 if none).
LastInk(s) ==
    CHOOSE j \in 0..Len(s) :
        /\ \A k \in (j + 1)..Len(s) : s[k] \in Whitespace
        /\ j >= 1 => s[j] \notin Whitespace

\* "REF", in any case, starts at index i of s.
RefAt(s, i) ==
    /\ i >= 1
    /\ i + 2 <= Len(s)
    /\ UpperChar(s[i]) = "R"
    /\ UpperChar(s[i + 1]) = "E"
    /\ UpperChar(s[i + 2]) = "F"

\* "REF" occurs in s somewhere after the first non-blank character.
RefOccursLater(s) == \E i \in (FirstInk(s) + 1)..Len(s) : RefAt(s, i)

\* C4 (as stated): normalize_reference is idempotent, for every input string
\* normalizing the normalized value gives the normalized value again.
C4_Idempotent ==
    pc = "done" => normalize_reference(response) = response

\* C4 (amended): normalizing the normalized value changes nothing whenever the
\* normalized value starts neither with "REF" nor with whitespace.
C4_IdempotentOnCleanKeys ==
    (pc = "done" /\ ~startswith(response, REF) /\ ~StartsWithSpace(response))
        => normalize_reference(response) = response

C4_Witness ==
    /\ pc = "done"
    /\ response # <<>>
    /\ response # request
    /\ ~startswith(response, REF)
    /\ ~StartsWithSpace(response)
    /\ normalize_reference(response) = response

\* C5 (as stated): for every input the normalized value is uppercase, does not
\* start with "REF" and does not start with "0".
C5_UpperNoRefNoZero ==
    pc = "done" =>
        /\ IsUpper(response)
        /\ ~startswith(response, REF)
        /\ ~StartsWithZero(response)

\* C5 (amended): the normalized value is uppercase and does not start with
\* "0"; it does not start with "REF" provided "REF" occurs (in any case)
\* nowhere in the input after its first non-blank character.
C5_UpperNoZeroRefOnce ==
    pc = "done" =>
        /\ IsUpper(response)
        /\ ~StartsWithZero(response)
        /\ ~RefOccursLater(request) => ~startswith(response, REF)

C5_Witness ==
    /\ pc = "done"
    /\ RefAt(request, FirstInk(request))
    /\ ~RefOccursLater(request)
    /\ \E i \in 1..Len(request) : request[i] \in LowerLetters
    /\ \E i \in 1..Len(request) : request[i] = "0"
    /\ response # <<>>

\* C6: the normalized value is the input with surrounding whitespace trimmed
\* and upper-cased, then without one leading "REF" if it has one, then
\* without its leading "0" characters; "REF09460", "09460" and "9460" give
\* "9460" and "REF000" gives the empty string.
C6_NormalizeSteps ==
    pc = "done" =>
        LET a == FirstInk(request)
            b == LastInk(request)
            n == IF b >= a THEN b - a + 1 ELSE 0
            u == [i \in 1..n |-> UpperChar(request[a + i - 1])]
            p == IF RefAt(u, 1) THEN 3 ELSE 0
            z == CHOOSE k \in (p + 1)..(n + 1) :
                    /\ \A m \in (p + 1)..(k - 1) : u[m] = "0"
                    /\ k <= n => u[k] # "0"
        IN  /\ response = [i \in 1..(n - z + 1) |-> u[z + i - 1]]
            /\ request \in {REF09460, S09460, S9460} => response = S9460
            /\ request = REF000 => response = <<>>

C6_Witness ==
    /\ pc = "done"
    /\ request = PaddedLower
    /\ response = S9460

(***************************************************************************)
(* loads.csv and load_csv_data.  A row is the dict csv.DictReader yields:  *)
(* reference_number (absent from every row when the header has no such     *)
(* column), rate (text in the file) and origin, which stands for the       *)
(* columns the code only passes through.                                   *)
(***************************************************************************)
None == [t |-> "None"]

Float(x) == [t |-> "float", v |-> x]

Digits == <<"0", "1", "2", "3", "4", "5", "6", "7", "8", "9">>

IsDigit(c) == \E d \in 1..10 : Digits[d] = c

DigitValue(c) == (CHOOSE d \in 1..10 : Digits[d] = c) - 1

RECURSIVE DecimalValue(_)
DecimalValue(s) ==
    IF s = <<>> THEN 0
    ELSE 10 * DecimalValue(SubSeq(s, 1, Len(s) - 1)) + DigitValue(s[Len(s)])

\* try: float(text) except (ValueError, TypeError): None -- on the rate texts
\* of the model, which are digit strings (whole numbers) or not numbers.
to_float(text) ==
    IF text # <<>> /\ \A i \in 1..Len(text) : IsDigit(text[i])
    THEN Float(DecimalValue(text))
    ELSE None

\* row.get("reference_number", "")
row_get_reference(row) ==
    IF "reference_number" \in DOMAIN row THEN row.reference_number ELSE <<>>

\* d[key] = value
DictSet(d, key, value) ==
    [k \in DOMAIN d \cup {key} |-> IF k = key THEN value ELSE d[k]]

\* variant: a key already in the table is kept (first row wins)
DictSetDefault(d, key, value) ==
    IF key \in DOMAIN d THEN d ELSE DictSet(d, key, value)

\* variant of load_row: first row wins
load_row_first_wins(d, row) ==
    LET raw_ref == upper(strip(row_get_reference(row)))
        normalized == normalize_reference(raw_ref)
        converted == [row EXCEPT !.rate = to_float(@)]
    IN  DictSetDefault(d, normalized, converted)

\* One iteration of the for loop of load_csv_data.
load_row(d, row) ==
    LET raw_ref == upper(strip(row_get_reference(row)))
        normalized == normalize_reference(raw_ref)
        converted == [row EXCEPT !.rate = to_float(@)]
    IN  DictSet(d, normalized, converted)

\* The for loop of load_csv_data over the rows from index i on.
RECURSIVE load_rows(_, _, _)
load_rows(d, rows, i) ==
    IF i > Len(rows) THEN d
    ELSE load_rows(load_row(d, rows[i]), rows, i + 1)

\* load_csv_data(filename): a missing file leaves the table as it is.
load_csv_data(d, file) ==
    IF file.exists THEN load_rows(d, file.rows, 1) ELSE d

CsvRefs ==
    { <<"R", "E", "F", "0", "9">>, <<"0", "9">>, <<"9">>,
      <<" ", "r", "e", "f", "8">>, <<"R", "E", "F", "0">>,
      <<"R", "E", "F", "R", "E", "F", "9">> }

Payloads ==
    { [origin |-> "Dallas", rate |-> <<"7", "5", "0">>],
      [origin |-> "Reno", rate |-> <<"n", "a">>] }

RowsWithRef ==
    { [reference_number |-> r, origin |-> p.origin, rate |-> p.rate] :
        r \in CsvRefs, p \in Payloads }

RECURSIVE SeqsUpTo(_, _)
SeqsUpTo(S, n) ==
    IF n = 0 THEN {<<>>}
    ELSE LET shorter == SeqsUpTo(S, n - 1)
         IN  shorter \cup {Append(q, x) : q \in shorter, x \in S}

CsvFiles ==
    {NoFile}
    \cup { [exists |-> TRUE, has_ref_column |-> TRUE, rows |-> rs] :
            rs \in SeqsUpTo(RowsWithRef, MaxRows) }
    \cup { [exists |-> TRUE, has_ref_column |-> FALSE, rows |-> rs] :
            rs \in SeqsUpTo(Payloads, MaxRows) }

(***************************************************************************)
(* POST /loads                                                             *)
(***************************************************************************)
HTTPException(status_code, detail) ==
    [kind |-> "HTTPException", status_code |-> status_code, detail |-> detail]

Return(body) == [kind |-> "return", body |-> body]

get_load(req, d) ==
    LET normalized == normalize_reference(req.reference_number)
    IN  IF normalized \in DOMAIN d
        THEN Return(d[normalized])
        ELSE HTTPException(404, "Load not found")

LookupRefs ==
    CsvRefs \cup { <<"7">>, <<>>, <<"0", "0">>, REF, <<"r", "e", "f", "9", " ">> }

LoadLookupRequests == { [reference_number |-> r] : r \in LookupRefs }

NoRequest == [kind |-> "none"]

Init ==
    /\ csvfile \in CsvFiles
    /\ load_data_csv = <<>>
    /\ request = NoRequest
    /\ fmcsa = NoAnswer
    /\ response = NoResponse
    /\ pc = "startup"

\* Module import: load_csv_data("loads.csv") runs once, before any request.
Startup ==
    /\ pc = "startup"
    /\ load_data_csv' = load_csv_data(load_data_csv, csvfile)
    /\ pc' = "serving"
    /\ UNCHANGED <<csvfile, request, fmcsa, response>>

GetLoad ==
    /\ pc \in {"serving", "done"}
    /\ \E req \in LoadLookupRequests :
        /\ request' = req
        /\ response' = get_load(req, load_data_csv)
    /\ pc' = "done"
    /\ UNCHANGED <<csvfile, load_data_csv, fmcsa>>

Next == Startup \/ GetLoad

Spec == Init /\ [][Next]_vars

\* The key a reference number is stored and looked up under.
KeyOf(ref) == normalize_reference(ref)

HasRef(row) == "reference_number" \in DOMAIN row

\* C7 (as stated): a reference number that normalizes to the empty string is
\* an invalid input: get_load rejects it as bad input (no record, no "Load
\* not found"), and load_csv_data stores no row under the empty key.
C7_EmptyKeyRejected ==
    /\ <<>> \notin DOMAIN load_data_csv
    /\ (pc = "done" /\ KeyOf(request.reference_number) = <<>>) =>
            /\ response.kind = "HTTPException"
            /\ response.status_code \in {400, 422}

\* Index of the last row of the file stored under the key of row i.
LastWithKey(rows, i) ==
    CHOOSE j \in i..Len(rows) :
        /\ KeyOf(row_get_reference(rows[j])) = KeyOf(row_get_reference(rows[i]))
        /\ \A k \in (j + 1)..Len(rows) :
            KeyOf(row_get_reference(rows[k])) # KeyOf(row_get_reference(rows[i]))

\* C8: once the table is built, get_load returns the stored record when the
\* normalized reference is a key of the table and raises 404 "Load not found"
\* otherwise; the table stays what load_csv_data built (one entry per
\* normalized key of the file, holding the last row with that key); reference
\* strings with the same normalized key get the same outcome; every row is
\* returned for its own reference_number unless a later row replaced it.
C8_LookupByNormalizedKey ==
    pc # "startup" =>
        LET rows == csvfile.rows
            key == KeyOf(request.reference_number)
        IN  /\ DOMAIN load_data_csv =
                    { KeyOf(row_get_reference(rows[i])) : i \in 1..Len(rows) }
            /\ \A i \in 1..Len(rows) :
                    LET last == rows[LastWithKey(rows, i)]
                        stored == load_data_csv[KeyOf(row_get_reference(rows[i]))]
                    IN  /\ stored.origin = last.origin
                        /\ stored.rate = to_float(last.rate)
                        /\ HasRef(last) => stored.reference_number = last.reference_number
                        /\ HasRef(rows[i]) =>
                                get_load([reference_number |-> rows[i].reference_number],
                                         load_data_csv) = Return(stored)
            /\ pc = "done" =>
                    /\ key \in DOMAIN load_data_csv =>
                            response = Return(load_data_csv[key])
                    /\ key \notin DOMAIN load_data_csv =>
                            response = HTTPException(404, "Load not found")
            /\ \A r1, r2 \in LoadLookupRequests :
                    KeyOf(r1.reference_number) = KeyOf(r2.reference_number) =>
                        get_load(r1, load_data_csv) = get_load(r2, load_data_csv)

C8_Witness ==
    /\ pc = "done"
    /\ Len(csvfile.rows) = 2
    /\ HasRef(csvfile.rows[1])
    /\ csvfile.rows[1].reference_number # csvfile.rows[2].reference_number
    /\ KeyOf(csvfile.rows[1].reference_number) = KeyOf(csvfile.rows[2].reference_number)
    /\ request.reference_number \notin
            {csvfile.rows[1].reference_number, csvfile.rows[2].reference_number}
    /\ response.kind = "return"
    /\ response.body.origin = csvfile.rows[2].origin
    /\ csvfile.rows[1].origin # csvfile.rows[2].origin

(***************************************************************************)
(* POST /verify-carrier.  The registry's answer to requests.get is either  *)
(* a RequestException or an HTTP response with a status code and a body;   *)
(* a body is either not JSON or a JSON value.  JSON values are tagged:     *)
(* None (null), strings, lists and objects (functions from keys).          *)
(***************************************************************************)
JStr(x) == [t |-> "str", v |-> x]

JList(x) == [t |-> "list", v |-> x]

JObj(x) == [t |-> "obj", v |-> x]

\* bool(value)
Truthy(value) ==
    CASE value.t = "None" -> FALSE
      [] value.t = "str" -> value.v # ""
      [] value.t = "list" -> Len(value.v) > 0
      [] value.t = "obj" -> DOMAIN value.v # {}

\* value.get(key) is an AttributeError on anything but a dict.
HasGet(value) == value.t = "obj"

\* dict.get(key)
Get(obj, key) == IF key \in DOMAIN obj.v THEN obj.v[key] ELSE None

\* str(n) of a Python int
RECURSIVE NatToStr(_)
NatToStr(n) ==
    IF n < 10 THEN Digits[n + 1]
    ELSE NatToStr(n \div 10) \o Digits[(n % 10) + 1]

str(n) == IF n < 0 THEN "-" \o NatToStr(-n) ELSE NatToStr(n)

Uncaught(exception) == [kind |-> "uncaught", exception |-> exception]

MC == <<"M", "C">>

\* The docket number placed in the URL of the outbound call.
docket_number(req) ==
    LET raw == upper(strip(req.mc_number))
    IN  IF startswith(raw, MC) THEN strip(SliceFrom(raw, 2)) ELSE raw

\* variant: a carrier without a name is reported as not verified
unnamed_carrier_unverified ==
    Return([verified |-> FALSE, carrier_name |-> ""])

unnamed_carrier ==
    HTTPException(404, "Carrier name not found in FMCSA data.")

\* carriers[0]
pick_carrier(carriers) == carriers.v[1]

\* The branch of verify_carrier for a 200 answer whose body parsed as data.
verify_parsed(data) ==
    IF ~HasGet(data) THEN Uncaught("AttributeError")
    ELSE LET content == Get(data, "content") IN
    IF ~Truthy(content) THEN HTTPException(404, "No content in FMCSA data.")
    ELSE IF ~HasGet(content) THEN Uncaught("AttributeError")
    ELSE LET carriers == Get(content, "carrier") IN
    IF ~Truthy(carriers)
    THEN HTTPException(404, "No carriers found in FMCSA data.")
    ELSE IF carriers.t # "list" THEN Uncaught("KeyError")
    ELSE LET carrier_info == pick_carrier(carriers) IN
    IF ~HasGet(carrier_info) THEN Uncaught("AttributeError")
    ELSE LET first_name == Get(carrier_info, "legalName")
             legal_name == IF ~Truthy(first_name)
                           THEN Get(carrier_info, "carrierName")
                           ELSE first_name
         IN  IF ~Truthy(legal_name) THEN unnamed_carrier
             ELSE IF legal_name.t # "str" THEN Uncaught("ValidationError")
             ELSE Return([verified |-> TRUE, carrier_name |-> legal_name.v])

\* verify_carrier, given what requests.get did.
verify_carrier(answer) ==
    IF answer.kind = "RequestException"
    THEN HTTPException(500, "Error calling FMCSA: " \o answer.text)
    ELSE IF answer.status_code = 200
    THEN IF ~answer.body.json
         THEN HTTPException(500, "FMCSA returned invalid JSON.")
         ELSE verify_parsed(answer.body.data)
    ELSE IF answer.status_code = 404
    THEN HTTPException(404, "Carrier not found in FMCSA data.")
    ELSE HTTPException(500, "FMCSA API error. Status code: "
                                \o str(answer.status_code))

Absent == [t |-> "absent"]

LegalNames == {Absent, None, JStr(""), JStr("JOHN S THOMPSON HAULING INC")}

CarrierNames == {Absent, None, JStr(""), JStr("THOMPSON HAULING")}

CarrierObj(legal, carrier) ==
    JObj([k \in (IF legal = Absent THEN {} ELSE {"legalName"})
                \cup (IF carrier = Absent THEN {} ELSE {"carrierName"})
            |-> IF k = "legalName" THEN legal ELSE carrier])

Carriers == { CarrierObj(l, c) : l \in LegalNames, c \in CarrierNames }

CarrierLists == SeqsUpTo(Carriers, MaxCarriers)

ContentValues ==
    { None, JObj(<<>>), JStr("unavailable"), JObj([carrier |-> None]),
      JObj([carrier |-> CarrierObj(JStr("SOLO CARRIER"), Absent)]),
      JObj([carrier |-> JList(<<JStr("text")>>)]),
      JObj([carrier |-> JList(<<CarrierObj(JList(<<JStr("A")>>), Absent)>>)]) }
    \cup { JObj([carrier |-> JList(cs)]) : cs \in CarrierLists }

DataValues ==
    { None, JList(<<>>), JObj(<<>>) }
    \cup { JObj([content |-> c]) : c \in ContentValues }

NotJson == [json |-> FALSE]

Bodies == {NotJson} \cup { [json |-> TRUE, data |-> d] : d \in DataValues }

RegistryAnswers ==
    { [kind |-> "RequestException", text |-> x] :
        x \in {"Read timed out.", "Connection refused"} }
    \cup { [kind |-> "http", status_code |-> 200, body |-> b] : b \in Bodies }
    \cup { [kind |-> "http", status_code |-> c, body |-> NotJson] :
            c \in {404, 403, 500, 204} }

VerifyCarrierRequests ==
    { [mc_number |-> m] :
        m \in { <<"M", "C", "8", "4">>, <<"8", "4">>,
                <<" ", "m", "c", " ", "8", "4", " ">> } }

InitVerify ==
    /\ csvfile = NoFile
    /\ load_data_csv = <<>>
    /\ request \in VerifyCarrierRequests
    /\ fmcsa = NoAnswer
    /\ response = NoResponse
    /\ pc = "call"

VerifyCarrier ==
    /\ pc = "call"
    /\ \E answer \in RegistryAnswers :
        /\ fmcsa' = [docket_number |-> docket_number(request), answer |-> answer]
        /\ response' = verify_carrier(answer)
    /\ pc' = "done"
    /\ UNCHANGED <<csvfile, load_data_csv, request>>

NextVerify == VerifyCarrier

SpecVerify == InitVerify /\ [][NextVerify]_vars

\* C9: verify_carrier succeeds only on a 200 answer with parseable JSON, a
\* non-empty content, a non-empty carrier list and a first carrier with a
\* non-empty legalName or carrierName; a success has verified = TRUE and the
\* first carrier's legalName, or else its carrierName; every other answer
\* raises: 404 for a registry 404 or a missing content, carrier or name, 500
\* for a transport failure, invalid JSON or another status; verified is never
\* FALSE.
C9_VerifyOutcomes ==
    pc = "done" =>
        LET a == fmcsa.answer
            http == a.kind = "http"
            parsed == http /\ a.status_code = 200 /\ a.body.json
            data == a.body.data
            content == Get(data, "content")
            hasContent == parsed /\ data.t = "obj" /\ Truthy(content)
            carriers == Get(content, "carrier")
            hasCarrier ==
                /\ hasContent
                /\ content.t = "obj"
                /\ carriers.t = "list"
                /\ Len(carriers.v) >= 1
            first == carriers.v[1]
            legal == Get(first, "legalName")
            other == Get(first, "carrierName")
            name == IF Truthy(legal) THEN legal ELSE other
            named == hasCarrier /\ first.t = "obj" /\ Truthy(name)
            raises(code) ==
                response.kind = "HTTPException" /\ response.status_code = code
        IN  /\ response.kind \in {"return", "HTTPException", "uncaught"}
            /\ response.kind = "return" =>
                    /\ named
                    /\ name.t = "str"
                    /\ response.body = [verified |-> TRUE, carrier_name |-> name.v]
            /\ (named /\ name.t = "str") => response.kind = "return"
            /\ a.kind = "RequestException" => raises(500)
            /\ (http /\ a.status_code = 404) => raises(404)
            /\ (http /\ a.status_code \notin {200, 404}) => raises(500)
            /\ (http /\ a.status_code = 200 /\ ~a.body.json) => raises(500)
            /\ (parsed /\ data.t = "obj" /\ ~Truthy(content)) => raises(404)
            /\ (hasContent /\ content.t = "obj" /\ ~Truthy(carriers)) => raises(404)
            /\ (hasCarrier /\ first.t = "obj" /\ ~Truthy(name)) => raises(404)

C9_Witness ==
    /\ pc = "done"
    /\ response.kind = "return"
    /\ response.body.verified
    /\ response.body.carrier_name = "THOMPSON HAULING"
    /\ Len(fmcsa.answer.body.data.v.content.v.carrier.v) = 2
    /\ fmcsa.docket_number = <<"8", "4">>
    /\ request.mc_number # <<"8", "4">>

(***************************************************************************)
(* POST /evaluate-offer, and a negotiation session: a caller that keeps    *)
(* the carrier's offer and feeds each counter back as our_last_offer.      *)
(***************************************************************************)
\* variant: division truncating toward zero
trunc_div(a, b) == IF a >= 0 THEN a \div b ELSE -((-a) \div b)

\* variant: division rounding up
ceil_div(a, b) == (a + b - 1) \div b

\* a // b (b > 0): floor division
floor_div(a, b) == a \div b

\* variant: only a strictly higher carrier offer is accepted
accepts_strictly(carrier_offer, our_last_offer) == carrier_offer > our_last_offer

\* the test of the accept branch
accepts(carrier_offer, our_last_offer) == carrier_offer >= our_last_offer

\* variant: "final counter" from the second attempt on, as the docstring puts it
is_first_attempt_below_two(attempt) == ~(attempt > 1)

\* the test that selects the first-counter message
is_first_attempt(attempt) == attempt = 1

evaluate_offer(req) ==
    LET carrier_offer == req.carrier_offer
        our_last_offer == req.our_last_offer
        attempt == req.offer_attempt
    IN  IF accepts(carrier_offer, our_last_offer)
        THEN Return([result |-> "accept",
                     new_offer |-> carrier_offer,
                     message |-> "Offer accepted."])
        ELSE LET new_offer == floor_div(our_last_offer + carrier_offer, 2)
             IN  IF is_first_attempt(attempt)
                 THEN Return([result |-> "counter",
                              new_offer |-> new_offer,
                              message |-> "We can go as low as " \o str(new_offer)
                                            \o " on this load."])
                 ELSE Return([result |-> "counter",
                              new_offer |-> new_offer,
                              message |-> "This is our final counter at "
                                            \o str(new_offer) \o "."])

Offers == ((-MaxOffer)..MaxOffer) \cup {600, 700, 800}

Attempts == {-1, 0, 1, 2, 3}

EvaluateOfferRequests ==
    { [carrier_offer |-> a, our_last_offer |-> b, offer_attempt |-> k] :
        a \in Offers, b \in Offers, k \in Attempts }

InitOffer ==
    /\ csvfile = NoFile
    /\ load_data_csv = <<>>
    /\ request \in EvaluateOfferRequests
    /\ fmcsa = NoAnswer
    /\ response = NoResponse
    /\ pc = "call"

EvaluateOffer ==
    /\ pc = "call"
    /\ response' = evaluate_offer(request)
    /\ pc' = "done"
    /\ UNCHANGED <<csvfile, load_data_csv, request, fmcsa>>

\* The caller of a session: after a counter, the next request keeps the
\* carrier's offer, takes the counter as our_last_offer, with any attempt.
FeedBack ==
    /\ pc = "done"
    /\ response.body.result = "counter"
    /\ \E k \in Attempts :
        request' = [carrier_offer |-> request.carrier_offer,
                    our_last_offer |-> response.body.new_offer,
                    offer_attempt |-> k]
    /\ pc' = "call"
    /\ UNCHANGED <<csvfile, load_data_csv, fmcsa, response>>

NextOffer == EvaluateOffer \/ FeedBack

\* The caller of a session keeps calling until an offer is accepted.
SpecOffer == InitOffer /\ [][NextOffer]_vars /\ WF_vars(NextOffer)

Replied == pc = "done"

Countered == Replied /\ response.body.result = "counter"

\* C1: for a < b and any offer_attempt, evaluate_offer(a, b, k) counters with
\* new_offer = the floor of (a + b) / 2 (rounded toward minus infinity).
C1_CounterIsFloorOfMean ==
    (Replied /\ request.carrier_offer < request.our_last_offer) =>
        LET sum == request.carrier_offer + request.our_last_offer
            n == response.body.new_offer
        IN  /\ response.body.result = "counter"
            /\ 2 * n <= sum
            /\ sum < 2 * n + 2
            /\ (request.carrier_offer = 600 /\ request.our_last_offer = 700)
                    => n = 650

C1_Witness ==
    /\ Countered
    /\ request.carrier_offer = -4
    /\ request.our_last_offer = -1
    /\ response.body.new_offer = -3
    /\ request.offer_attempt = -1

\* C2: for a >= b and any offer_attempt, evaluate_offer(a, b, k) accepts with
\* new_offer = a, the carrier's offer, and message "Offer accepted.".
C2_AcceptAtCarrierOffer ==
    (Replied /\ request.carrier_offer >= request.our_last_offer) =>
        response.body = [result |-> "accept",
                         new_offer |-> request.carrier_offer,
                         message |-> "Offer accepted."]

C2_Witness ==
    /\ Replied
    /\ request.carrier_offer = 800
    /\ request.our_last_offer = 700
    /\ request.offer_attempt = 3
    /\ response.body.new_offer = 800
    /\ response.body.result = "accept"

C10_SessionConverges ==
    /\ [][(pc = "call" /\ pc' = "done" /\ response'.body.result = "counter") =>
            /\ request.carrier_offer <= response'.body.new_offer
            /\ response'.body.new_offer < request.our_last_offer]_vars
    /\ [][(pc = "done" /\ pc' = "call") =>
            /\ request'.carrier_offer = request.carrier_offer
            /\ request'.our_last_offer < request.our_last_offer
            /\ request'.our_last_offer >= request.carrier_offer]_vars
    /\ <>(Replied /\ response.body.result = "accept")

C10_Witness ==
    /\ pc = "call"
    /\ response.kind = "return"
    /\ response.body.result = "counter"
    /\ request.our_last_offer = response.body.new_offer
    /\ request.carrier_offer = -7
    /\ request.our_last_offer = -7
    /\ request.offer_attempt = 3

=============================================================================
